---- MODULE Spec2Model ----
(***************************************************************************)
(* Model of the Yandex 360 Disk trigger node: the poll() method of         *)
(* Yandex360DiskTrigger and the filter functions of GenericFunctions.      *)
(*                                                                         *)
(* Strings whose characters the code inspects (paths, MIME types, the      *)
(* OAuth token) are sequences of one-character strings.  An ISO-8601       *)
(* timestamp string is the pair <<seconds, fraction>>, the fraction in     *)
(* ticks of 1/TicksPerSec second; the empty sequence is the empty or       *)
(* missing string.  Time itself (Date.getTime()) is an integer number of   *)
(* ticks.                                                                  *)
(***************************************************************************)
EXTENDS Integers, Sequences, FiniteSets, TLC

VARIABLES
    clock,            \* wall clock of the host, in ticks
    lastTimeChecked,  \* webhookData.lastTimeChecked: <<>> when not persisted
    pc,               \* position of poll(): "idle" or "awaitRecent"; of a direct call: "called" or "returned"
    mode,             \* this.getMode() of the current or last invocation
    cfg,              \* node parameters of the current or last invocation
    startDate,        \* poll() local startDate
    endDate,          \* poll() local endDate
    fetch,            \* what api.recent() answered in the last invocation
    result,           \* what the last finished poll() returned or threw
    call,             \* last direct call of a filter function: name and arguments
    ret,              \* what that call returned
    requests,         \* the options of the api.recent() calls of the current or last invocation
    history,          \* what earlier automated cycles did, where it is recorded
    exec,             \* Yandex360Disk.execute(): its parameters, position, returnData and outcome
    wait              \* waitForOperation(): its arguments, position and outcome

vars == <<clock, lastTimeChecked, pc, mode, cfg, startDate, endDate, fetch, result, call, ret,
          requests, history, exec, wait>>

\* the variables of the trigger and of the direct calls of the filters
pollVars == <<clock, lastTimeChecked, pc, mode, cfg, startDate, endDate, fetch, result, call,
              ret, requests, history>>

----------------------------------------------------------------------------
(* Bounds *)

MaxClock == 11

MaxItems == 2

MaxFlight == 2

MaxDate == 4

MaxDelta == 3

MaxInput == 2

MaxLatency == 1

MaxTimeout == 4

MaxInterval == 2

----------------------------------------------------------------------------
(* Time and strings *)

TicksPerSec == 2

Min(a, b) == IF a <= b THEN a ELSE b

Abs(x) == IF x < 0 THEN 0 - x ELSE x

\* moment().utc().format(): the ISO string of the instant, to the second
MomentUtcFormat(t) == <<t \div TicksPerSec, 0>>

\* new Date(isoString).getTime()
DateGetTime(s) == s[1] * TicksPerSec + s[2]

\* String.prototype.startsWith
StartsWith(s, p) == Len(s) >= Len(p) /\ SubSeq(s, 1, Len(p)) = p

\* String.prototype.endsWith
EndsWith(s, p) == Len(s) >= Len(p) /\ SubSeq(s, Len(s) - Len(p) + 1, Len(s)) = p

RECURSIVE TrimStart(_)
TrimStart(s) == IF s # <<>> /\ Head(s) = " " THEN TrimStart(Tail(s)) ELSE s

RECURSIVE TrimEnd(_)
TrimEnd(s) == IF s # <<>> /\ s[Len(s)] = " " THEN TrimEnd(SubSeq(s, 1, Len(s) - 1)) ELSE s

\* String.prototype.trim
Trim(s) == TrimEnd(TrimStart(s))
----------------------------------------------------------------------------
(* GenericFunctions: the filter stages *)

\* filterByEventType without the one-second tolerance
filterByEventType_noTolerance(items, event) ==
    IF event = "all" THEN items
    ELSE IF event = "created" THEN
        SelectSeq(items, LAMBDA item :
            DateGetTime(item.created) = DateGetTime(item.modified))
    ELSE IF event = "updated" THEN
        SelectSeq(items, LAMBDA item :
            DateGetTime(item.modified) > DateGetTime(item.created))
    ELSE items

\* filterByEventType whose 'updated' rule starts at one second exactly
filterByEventType_updatedFromOneSecond(items, event) ==
    IF event = "all" THEN items
    ELSE IF event = "created" THEN
        SelectSeq(items, LAMBDA item :
            Abs(DateGetTime(item.created) - DateGetTime(item.modified)) < TicksPerSec)
    ELSE IF event = "updated" THEN
        SelectSeq(items, LAMBDA item :
            DateGetTime(item.modified) >= DateGetTime(item.created) + TicksPerSec)
    ELSE items

\* filterByEventType whose 'created' rule reaches one second exactly
filterByEventType_createdUpToOneSecond(items, event) ==
    IF event = "all" THEN items
    ELSE IF event = "created" THEN
        SelectSeq(items, LAMBDA item :
            Abs(DateGetTime(item.created) - DateGetTime(item.modified)) <= TicksPerSec)
    ELSE IF event = "updated" THEN
        SelectSeq(items, LAMBDA item :
            DateGetTime(item.modified) > DateGetTime(item.created) + TicksPerSec)
    ELSE items

\* filterByEventType whose 'updated' rule takes any later modification
filterByEventType_updatedAnyLater(items, event) ==
    IF event = "all" THEN items
    ELSE IF event = "created" THEN
        SelectSeq(items, LAMBDA item :
            Abs(DateGetTime(item.created) - DateGetTime(item.modified)) < TicksPerSec)
    ELSE IF event = "updated" THEN
        SelectSeq(items, LAMBDA item :
            DateGetTime(item.modified) > DateGetTime(item.created))
    ELSE items

\* filterByEventType(items, event)
filterByEventType(items, event) ==
    IF event = "all" THEN items
    ELSE IF event = "created" THEN
        SelectSeq(items, LAMBDA item :
            LET created == DateGetTime(item.created)
                modified == DateGetTime(item.modified)
            IN  Abs(created - modified) < TicksPerSec)
    ELSE IF event = "updated" THEN
        SelectSeq(items, LAMBDA item :
            LET created == DateGetTime(item.created)
                modified == DateGetTime(item.modified)
            IN  modified > created + TicksPerSec)
    ELSE items

\* the typeMap of filterByFileType: MIME prefixes of each category
typeMap ==
    [document |-> <<<<"a", "p", "p", "l", "i", "c", "a", "t", "i", "o", "n", "/", "p", "d", "f">>, <<"a", "p", "p", "l", "i", "c", "a", "t", "i", "o", "n", "/", "m", "s", "w", "o", "r", "d">>, <<"a", "p", "p", "l", "i", "c", "a", "t", "i", "o", "n", "/", "v", "n", "d", ".">>, <<"t", "e", "x", "t", "/">>>>,
     image    |-> <<<<"i", "m", "a", "g", "e", "/">>>>,
     video    |-> <<<<"v", "i", "d", "e", "o", "/">>>>,
     audio    |-> <<<<"a", "u", "d", "i", "o", "/">>>>,
     archive  |-> <<<<"a", "p", "p", "l", "i", "c", "a", "t", "i", "o", "n", "/", "z", "i", "p">>, <<"a", "p", "p", "l", "i", "c", "a", "t", "i", "o", "n", "/", "x", "-", "r", "a", "r">>, <<"a", "p", "p", "l", "i", "c", "a", "t", "i", "o", "n", "/", "x", "-", "t", "a", "r">>, <<"a", "p", "p", "l", "i", "c", "a", "t", "i", "o", "n", "/", "g", "z", "i", "p">>>>]

\* filterByFileType that keeps an item without MIME type
filterByFileType_missingMimeKept(items, fileType) ==
    IF fileType = "all" THEN items
    ELSE
        LET patterns == IF fileType \in DOMAIN typeMap THEN typeMap[fileType] ELSE <<>>
        IN  SelectSeq(items, LAMBDA item :
                LET mimeType == item.mime_type
                IN  \/ mimeType = <<>>
                    \/ \E i \in 1..Len(patterns) : StartsWith(mimeType, patterns[i]))

\* filterByFileType(items, fileType)
filterByFileType(items, fileType) ==
    IF fileType = "all" THEN items
    ELSE
        LET patterns == IF fileType \in DOMAIN typeMap THEN typeMap[fileType] ELSE <<>>
        IN  SelectSeq(items, LAMBDA item :
                LET mimeType == item.mime_type
                IN  \E i \in 1..Len(patterns) : StartsWith(mimeType, patterns[i]))

\* filterByModifiedTime with the start of the window included
filterByModifiedTime_startIncluded(items, start, end) ==
    LET startTime == DateGetTime(start)
        endTime == DateGetTime(end)
    IN  SelectSeq(items, LAMBDA item :
            LET modifiedTime == DateGetTime(item.modified)
            IN  modifiedTime >= startTime /\ modifiedTime <= endTime)

\* filterByModifiedTime returning the kept items last first
filterByModifiedTime_newestFirst(items, start, end) ==
    LET startTime == DateGetTime(start)
        endTime == DateGetTime(end)
        kept == SelectSeq(items, LAMBDA item :
                    LET modifiedTime == DateGetTime(item.modified)
                    IN  modifiedTime > startTime /\ modifiedTime <= endTime)
    IN  [i \in 1..Len(kept) |-> kept[Len(kept) + 1 - i]]

\* filterByModifiedTime(items, startDate, endDate)
filterByModifiedTime(items, start, end) ==
    LET startTime == DateGetTime(start)
        endTime == DateGetTime(end)
    IN  SelectSeq(items, LAMBDA item :
            LET modifiedTime == DateGetTime(item.modified)
            IN  modifiedTime > startTime /\ modifiedTime <= endTime)

\* applyLimit that takes a limit of zero literally
applyLimit_zeroEmpties(items, limit) ==
    IF limit < 0 THEN items ELSE SubSeq(items, 1, Min(limit, Len(items)))

\* applyLimit(items, limit)
applyLimit(items, limit) ==
    IF limit <= 0 THEN items ELSE SubSeq(items, 1, Min(limit, Len(items)))

\* normalizePath without the trim of the target path
normalizePath_noTrim(targetPath) ==
    LET prefixed == IF ~StartsWith(targetPath, <<"d", "i", "s", "k", ":">>)
                    THEN <<"d", "i", "s", "k", ":">> \o (IF ~StartsWith(targetPath, <<"/">>)
                                    THEN <<"/">> \o targetPath ELSE targetPath)
                    ELSE targetPath
    IN  IF EndsWith(prefixed, <<"/">>) /\ prefixed # <<"d", "i", "s", "k", ":", "/">>
        THEN SubSeq(prefixed, 1, Len(prefixed) - 1)
        ELSE prefixed

\* the path filterByPath compares item paths with, for a non-root target
normalizePath(targetPath) ==
    LET trimmed == Trim(targetPath)
        prefixed == IF ~StartsWith(trimmed, <<"d", "i", "s", "k", ":">>)
                    THEN <<"d", "i", "s", "k", ":">> \o (IF ~StartsWith(trimmed, <<"/">>)
                                    THEN <<"/">> \o trimmed ELSE trimmed)
                    ELSE trimmed
    IN  IF EndsWith(prefixed, <<"/">>) /\ prefixed # <<"d", "i", "s", "k", ":", "/">>
        THEN SubSeq(prefixed, 1, Len(prefixed) - 1)
        ELSE prefixed

\* filterByPath matching on the bare prefix, without the '/' after it
filterByPath_barePrefix(items, targetPath) ==
    IF targetPath = <<>> \/ targetPath = <<"/">> THEN items
    ELSE
        LET normalizedPath == normalizePath(targetPath)
        IN  IF normalizedPath = <<"d", "i", "s", "k", ":", "/">> THEN items
            ELSE SelectSeq(items, LAMBDA item :
                    \/ item.path = normalizedPath
                    \/ StartsWith(item.path, normalizedPath))

\* filterByPath(items, targetPath)
filterByPath(items, targetPath) ==
    IF targetPath = <<>> \/ targetPath = <<"/">> THEN items
    ELSE
        LET normalizedPath == normalizePath(targetPath)
        IN  IF normalizedPath = <<"d", "i", "s", "k", ":", "/">> THEN items
            ELSE SelectSeq(items, LAMBDA item :
                    \/ item.path = normalizedPath
                    \/ StartsWith(item.path, normalizedPath \o <<"/">>))
----------------------------------------------------------------------------
(* What the remote API can return to the trigger, and how the node can be  *)
(* configured.  T0 of the end-to-end scenario is second 0.                 *)

\* an IYandexDiskResource; a missing mime_type is the empty string
Resource(path, mime, created, modified) ==
    [path |-> path, mime_type |-> mime, created |-> created, modified |-> modified]

ItemA == Resource(<<"/", "n", "8", "n", "/", "a", ".", "t", "x", "t">>, <<"t", "e", "x", "t", "/", "p", "l", "a", "i", "n">>, <<1, 0>>, <<1, 0>>)

ItemB == Resource(<<"/", "o", "t", "h", "e", "r", "/", "b", ".", "t", "x", "t">>, <<"i", "m", "a", "g", "e", "/", "j", "p", "e", "g">>, <<0 - 100, 0>>, <<2, 0>>)

ItemDoc == Resource(<<"/", "D", "o", "c", "u", "m", "e", "n", "t", "s", "/", "d", "o", "c", ".", "t", "x", "t">>, <<>>, <<0 - 5, 0>>, <<3, 1>>)

ItemOther == Resource(<<"/", "O", "t", "h", "e", "r", "/", "o", "t", "h", "e", "r", ".", "t", "x", "t">>, <<>>, <<0 - 5, 0>>, <<3, 1>>)

ItemDiskA == Resource(<<"d", "i", "s", "k", ":", "/", "n", "8", "n", "/", "a", ".", "t", "x", "t">>, <<"t", "e", "x", "t", "/", "p", "l", "a", "i", "n">>, <<2, 0>>, <<2, 1>>)

RemoteItems == {ItemA, ItemB, ItemDoc, ItemOther, ItemDiskA}

\* sequences over S of length at most n that list no element twice
SeqsUpTo(S, n) ==
    {s \in UNION {[1..k -> S] : k \in 0..n} :
        \A i, j \in DOMAIN s : s[i] = s[j] => i = j}

\* the answers of api.recent(): a rejection, a body without items, a body with items
NoFetch == [status |-> "none", hasItems |-> FALSE, items |-> <<>>]

Responses ==
    {[status |-> "rejected", hasItems |-> FALSE, items |-> <<>>],
     [status |-> "resolved", hasItems |-> FALSE, items |-> <<>>]}
    \cup {[status |-> "resolved", hasItems |-> TRUE, items |-> s] :
            s \in SeqsUpTo(RemoteItems, MaxItems)}

Modes == {"manual", "trigger"}

\* node parameters: event, location, path, options.fileType, options.limit
\* (limit 0 stands for an unset limit)
Config(event, location, path, fileType, limit) ==
    [event |-> event, location |-> location, path |-> path,
     fileType |-> fileType, limit |-> limit]

Configs ==
    {Config(e, "root", <<>>, f, l) :
        e \in {"created", "updated"}, f \in {"all", "document"}, l \in {0, 1, 50}}
    \cup
    {Config(e, "specificPath", p, f, l) :
        e \in {"created", "updated"}, p \in {<<"/", "n", "8", "n">>, <<"/", "D", "o", "c", "u", "m", "e", "n", "t", "s">>},
        f \in {"all", "document"}, l \in {0, 1, 50}}

NoConfig == Config("", "", <<>>, "", 0)

\* credentials.oauthToken
Tokens == {<<>>, <<"t", "o", "k">>}

----------------------------------------------------------------------------
(* Yandex360DiskTrigger.poll *)

\* initializeYandexDiskApi(credentials): TRUE when it returns a client,
\* FALSE when it throws 'OAuth token not found in credentials'
initializeYandexDiskApi(token) == token # <<>>

\* this.helpers.returnJsonArray(items)
returnJsonArray(items) == [i \in 1..Len(items) |-> [json |-> items[i]]]

\* outcomes of poll(): a returned value or a thrown error, with the value
\* webhookData.lastTimeChecked has when poll() is left
Returned(batches, ltc) ==
    [kind |-> "batch", batches |-> batches, error |-> "", message |-> "",
     lastTimeChecked |-> ltc]

ReturnedNull(ltc) ==
    [kind |-> "null", batches |-> <<>>, error |-> "", message |-> "",
     lastTimeChecked |-> ltc]

Thrown(error, message, ltc) ==
    [kind |-> "error", batches |-> <<>>, error |-> error, message |-> message,
     lastTimeChecked |-> ltc]

\* items read from the response body of api.recent()
responseItems(response) == IF response.hasItems THEN response.items ELSE <<>>

\* the filter pipeline with the cap applied first
filterPipeline_capFirst(items, c, start, end) ==
    LET fileType == IF c.fileType = "" THEN "all" ELSE c.fileType
        userLimit == IF c.limit = 0 THEN 50 ELSE c.limit
        capped == applyLimit(items, userLimit)
        byTime == filterByModifiedTime(capped, start, end)
        byEvent == filterByEventType(byTime, c.event)
        byPath == IF c.location = "specificPath"
                  THEN filterByPath(byEvent, c.path) ELSE byEvent
    IN  filterByFileType(byPath, fileType)

\* the filter pipeline of the automated branch
filterPipeline(items, c, start, end) ==
    LET fileType == IF c.fileType = "" THEN "all" ELSE c.fileType
        userLimit == IF c.limit = 0 THEN 50 ELSE c.limit
        byTime == filterByModifiedTime(items, start, end)
        byEvent == filterByEventType(byTime, c.event)
        byPath == IF c.location = "specificPath"
                  THEN filterByPath(byEvent, c.path) ELSE byEvent
        byType == filterByFileType(byPath, fileType)
    IN  applyLimit(byType, userLimit)

\* the manual branch writing the state before it returns the batch
manualBranch_writesState(response, helperOk, ltc) ==
    IF response.status = "rejected"
    THEN Thrown("NodeApiError", "Failed to fetch recent files from Yandex Disk", ltc)
    ELSE LET items == responseItems(response)
         IN  IF Len(items) = 0
             THEN Thrown("NodeApiError", "No recent files found in Yandex Disk", ltc)
             ELSE IF ~helperOk
             THEN Thrown("NodeApiError", "Failed to fetch recent files from Yandex Disk", endDate)
             ELSE Returned(<<returnJsonArray(items)>>, endDate)

\* the manual branch returning null when the answer has no items
manualBranch_emptyNull(response, helperOk, ltc) ==
    IF response.status = "rejected"
    THEN Thrown("NodeApiError", "Failed to fetch recent files from Yandex Disk", ltc)
    ELSE LET items == responseItems(response)
         IN  IF Len(items) = 0
             THEN ReturnedNull(ltc)
             ELSE IF ~helperOk
             THEN Thrown("NodeApiError", "Failed to fetch recent files from Yandex Disk", ltc)
             ELSE Returned(<<returnJsonArray(items)>>, ltc)

\* the manual branch applying the configured event filter to the answer
manualBranch_filtersByEvent(response, helperOk, ltc) ==
    IF response.status = "rejected"
    THEN Thrown("NodeApiError", "Failed to fetch recent files from Yandex Disk", ltc)
    ELSE LET items == filterByEventType(responseItems(response), cfg.event)
         IN  IF Len(items) = 0
             THEN Thrown("NodeApiError", "No recent files found in Yandex Disk", ltc)
             ELSE IF ~helperOk
             THEN Thrown("NodeApiError", "Failed to fetch recent files from Yandex Disk", ltc)
             ELSE Returned(<<returnJsonArray(items)>>, ltc)

\* poll(), manual branch, from the answer of api.recent({limit: 1}) on
manualBranch(response, helperOk, ltc) ==
    IF response.status = "rejected"
    THEN Thrown("NodeApiError", "Failed to fetch recent files from Yandex Disk", ltc)
    ELSE LET items == responseItems(response)
         IN  IF Len(items) = 0
             THEN Thrown("NodeApiError", "No recent files found in Yandex Disk", ltc)
             ELSE IF ~helperOk
             THEN Thrown("NodeApiError", "Failed to fetch recent files from Yandex Disk", ltc)
             ELSE Returned(<<returnJsonArray(items)>>, ltc)

\* the automated branch writing the state only when items were found
automatedBranch_writesIfItems(response, c, start, end, helperOk, ltc) ==
    IF response.status = "rejected"
    THEN Thrown("NodeApiError", "Failed to fetch recent files from Yandex Disk", ltc)
    ELSE LET items == filterPipeline(responseItems(response), c, start, end)
         IN  IF Len(items) > 0
             THEN IF helperOk
                  THEN Returned(<<returnJsonArray(items)>>, end)
                  ELSE Thrown("NodeApiError", "An error occurred in Yandex 360 Disk Trigger", end)
             ELSE ReturnedNull(ltc)

\* the automated branch writing the state also when the fetch failed
automatedBranch_writesOnFailure(response, c, start, end, helperOk, ltc) ==
    IF response.status = "rejected"
    THEN Thrown("NodeApiError", "Failed to fetch recent files from Yandex Disk", end)
    ELSE LET items == filterPipeline(responseItems(response), c, start, end)
         IN  IF Len(items) > 0
             THEN IF helperOk
                  THEN Returned(<<returnJsonArray(items)>>, end)
                  ELSE Thrown("NodeApiError", "An error occurred in Yandex 360 Disk Trigger", end)
             ELSE ReturnedNull(end)

\* the automated branch returning the batch without the test for no items
automatedBranch_emptyBatch(response, c, start, end, helperOk, ltc) ==
    IF response.status = "rejected"
    THEN Thrown("NodeApiError", "Failed to fetch recent files from Yandex Disk", ltc)
    ELSE LET items == filterPipeline(responseItems(response), c, start, end)
         IN  IF helperOk
             THEN Returned(<<returnJsonArray(items)>>, end)
             ELSE Thrown("NodeApiError", "An error occurred in Yandex 360 Disk Trigger", end)

\* the automated branch writing the time of the answer as the checkpoint
automatedBranch_checkpointAtAnswer(response, c, start, end, helperOk, ltc) ==
    IF response.status = "rejected"
    THEN Thrown("NodeApiError", "Failed to fetch recent files from Yandex Disk", ltc)
    ELSE LET items == filterPipeline(responseItems(response), c, start, end)
         IN  IF Len(items) > 0
             THEN IF helperOk
                  THEN Returned(<<returnJsonArray(items)>>, MomentUtcFormat(clock))
                  ELSE Thrown("NodeApiError", "An error occurred in Yandex 360 Disk Trigger",
                              MomentUtcFormat(clock))
             ELSE ReturnedNull(MomentUtcFormat(clock))

\* the automated branch returning null when api.recent() rejects
automatedBranch_swallowsRejection(response, c, start, end, helperOk, ltc) ==
    IF response.status = "rejected"
    THEN ReturnedNull(ltc)
    ELSE LET items == filterPipeline(responseItems(response), c, start, end)
         IN  IF Len(items) > 0
             THEN IF helperOk
                  THEN Returned(<<returnJsonArray(items)>>, end)
                  ELSE Thrown("NodeApiError", "An error occurred in Yandex 360 Disk Trigger", end)
             ELSE ReturnedNull(end)

\* the automated branch leaving the checkpoint when it returns a batch
automatedBranch_checkpointKept(response, c, start, end, helperOk, ltc) ==
    IF response.status = "rejected"
    THEN Thrown("NodeApiError", "Failed to fetch recent files from Yandex Disk", ltc)
    ELSE LET items == filterPipeline(responseItems(response), c, start, end)
         IN  IF Len(items) > 0
             THEN IF helperOk
                  THEN Returned(<<returnJsonArray(items)>>, ltc)
                  ELSE Thrown("NodeApiError", "An error occurred in Yandex 360 Disk Trigger", ltc)
             ELSE ReturnedNull(end)

\* poll(), automated branch, from the answer of api.recent(recentOptions) on
automatedBranch(response, c, start, end, helperOk, ltc) ==
    IF response.status = "rejected"
    THEN Thrown("NodeApiError", "Failed to fetch recent files from Yandex Disk", ltc)
    ELSE LET items == filterPipeline(responseItems(response), c, start, end)
         IN  IF Len(items) > 0
             THEN IF helperOk
                  THEN Returned(<<returnJsonArray(items)>>, end)
                  ELSE Thrown("NodeApiError", "An error occurred in Yandex 360 Disk Trigger", end)
             ELSE ReturnedNull(end)

NoResult ==
    [kind |-> "none", batches |-> <<>>, error |-> "", message |-> "",
     lastTimeChecked |-> <<>>]

\* nothing recorded of earlier cycles
\*   captured: the clock when the current or last cycle took 'now'
\*   first:    <<checkpoint, clock>> of the first cycle that wrote a checkpoint
\*   gap:      the items the last answered cycle received that were modified
\*             after it took 'now' and not after the answer of api.recent()
\*   failed:   <<checkpoint, endDate>> left by the last cycle when it failed
\*   retried:  what 'failed' was when the last cycle began
\*   emitted:  the items the cycles have returned in their batches
\*   deferred: the items of 'gap' that the last cycle returned in its batch
NoHistory ==
    [captured |-> 0, first |-> <<>>, gap |-> {}, failed |-> <<>>, retried |-> <<>>,
     emitted |-> {}, deferred |-> {}]

\* FILE_TYPE_TO_MEDIA_TYPE[fileType]: the media_type of the request, "" for none
FILE_TYPE_TO_MEDIA_TYPE(fileType) == IF fileType = "all" THEN "" ELSE fileType

\* the options of the request with the configured limit sent as it is
recentOptions_unclamped(m, c) ==
    IF m = "manual"
    THEN [limit |-> 1, media_type |-> ""]
    ELSE LET fileType == IF c.fileType = "" THEN "all" ELSE c.fileType
             mediaType == FILE_TYPE_TO_MEDIA_TYPE(fileType)
             userLimit == IF c.limit = 0 THEN 50 ELSE c.limit
         IN  [limit |-> userLimit, media_type |-> mediaType]

\* the options poll() passes to api.recent()
recentOptions(m, c) ==
    IF m = "manual"
    THEN [limit |-> 1, media_type |-> ""]
    ELSE LET fileType == IF c.fileType = "" THEN "all" ELSE c.fileType
             mediaType == FILE_TYPE_TO_MEDIA_TYPE(fileType)
             userLimit == IF c.limit = 0 THEN 50 ELSE c.limit
             apiLimit == Min(userLimit, 1000)
         IN  [limit |-> apiLimit, media_type |-> mediaType]

\* poll() starting the window of a first run at the epoch
Start_firstRunFromEpoch(m, token) ==
    /\ mode' = m
    /\ fetch' = NoFetch
    /\ IF initializeYandexDiskApi(token)
       THEN LET now == MomentUtcFormat(clock)
            IN  /\ startDate' = (IF lastTimeChecked # <<>> THEN lastTimeChecked ELSE <<0, 0>>)
                /\ endDate' = now
                /\ requests' = <<recentOptions(m, cfg)>>
                /\ pc' = "awaitRecent"
                /\ result' = NoResult
       ELSE /\ startDate' = <<>>
            /\ endDate' = <<>>
            /\ requests' = <<>>
            /\ pc' = "idle"
            /\ result' = Thrown("NodeApiError",
                                "An error occurred in Yandex 360 Disk Trigger",
                                lastTimeChecked)
    /\ UNCHANGED <<clock, lastTimeChecked, cfg, call, ret>>

\* poll() starting every window at 'now', whatever checkpoint is persisted
Start_ignoresCheckpoint(m, token) ==
    /\ mode' = m
    /\ fetch' = NoFetch
    /\ IF initializeYandexDiskApi(token)
       THEN LET now == MomentUtcFormat(clock)
            IN  /\ startDate' = now
                /\ endDate' = now
                /\ requests' = <<recentOptions(m, cfg)>>
                /\ pc' = "awaitRecent"
                /\ result' = NoResult
       ELSE /\ startDate' = <<>>
            /\ endDate' = <<>>
            /\ requests' = <<>>
            /\ pc' = "idle"
            /\ result' = Thrown("NodeApiError",
                                "An error occurred in Yandex 360 Disk Trigger",
                                lastTimeChecked)
    /\ UNCHANGED <<clock, lastTimeChecked, cfg, call, ret>>

\* poll() writing the state before the credentials are checked
Start_tokenFailureWritesState(m, token) ==
    /\ mode' = m
    /\ fetch' = NoFetch
    /\ lastTimeChecked' = (IF initializeYandexDiskApi(token) THEN lastTimeChecked
                           ELSE MomentUtcFormat(clock))
    /\ IF initializeYandexDiskApi(token)
       THEN LET now == MomentUtcFormat(clock)
            IN  /\ startDate' = (IF lastTimeChecked # <<>> THEN lastTimeChecked ELSE now)
                /\ endDate' = now
                /\ requests' = <<recentOptions(m, cfg)>>
                /\ pc' = "awaitRecent"
                /\ result' = NoResult
       ELSE /\ startDate' = <<>>
            /\ endDate' = <<>>
            /\ requests' = <<>>
            /\ pc' = "idle"
            /\ result' = Thrown("NodeApiError",
                                "An error occurred in Yandex 360 Disk Trigger",
                                MomentUtcFormat(clock))
    /\ UNCHANGED <<clock, cfg, call, ret>>

\* poll() in mode m up to the call of api.recent(): parameters, credentials,
\* the window, the request
Start(m, token) ==
    /\ mode' = m
    /\ fetch' = NoFetch
    /\ IF initializeYandexDiskApi(token)
       THEN LET now == MomentUtcFormat(clock)
            IN  /\ startDate' = (IF lastTimeChecked # <<>> THEN lastTimeChecked ELSE now)
                /\ endDate' = now
                /\ requests' = <<recentOptions(m, cfg)>>
                /\ pc' = "awaitRecent"
                /\ result' = NoResult
       ELSE /\ startDate' = <<>>
            /\ endDate' = <<>>
            /\ requests' = <<>>
            /\ pc' = "idle"
            /\ result' = Thrown("NodeApiError",
                                "An error occurred in Yandex 360 Disk Trigger",
                                lastTimeChecked)
    /\ UNCHANGED <<clock, lastTimeChecked, cfg, call, ret>>

\* api.recent() answers and poll() runs to its end
RecentAnswers(response, helperOk) ==
    LET out == IF mode = "manual"
               THEN manualBranch(response, helperOk, lastTimeChecked)
               ELSE automatedBranch(response, cfg, startDate, endDate, helperOk,
                                    lastTimeChecked)
    IN  /\ fetch' = response
        /\ result' = out
        /\ lastTimeChecked' = out.lastTimeChecked
        /\ pc' = "idle"
        /\ UNCHANGED <<clock, mode, cfg, startDate, endDate, call, ret, requests>>

\* an invocation of poll() begins, in either mode
PollStart ==
    /\ pc = "idle"
    /\ \E m \in Modes, token \in Tokens : Start(m, token)
    /\ UNCHANGED <<history, exec, wait>>

\* the answer of api.recent() arrives
PollRecentAnswers ==
    /\ pc = "awaitRecent"
    /\ \E response \in Responses, helperOk \in BOOLEAN : RecentAnswers(response, helperOk)
    /\ UNCHANGED <<history, exec, wait>>

\* the parameters of the node in the runs that record their history
CycleConfigs ==
    {Config("updated", "root", <<>>, "", 0),
     Config("created", "root", <<>>, "all", 1),
     Config("created", "specificPath", <<"/", "n", "8", "n">>, "image", 2000)}

\* what the remote holds in those runs, and the answers of api.recent()
CycleItems == {ItemA, ItemB, ItemDiskA}

CycleResponses ==
    {[status |-> "rejected", hasItems |-> FALSE, items |-> <<>>],
     [status |-> "resolved", hasItems |-> FALSE, items |-> <<>>]}
    \cup {[status |-> "resolved", hasItems |-> TRUE, items |-> s] :
            s \in SeqsUpTo(CycleItems, MaxItems)}

\* a scheduled invocation of poll() begins
CycleStart ==
    /\ pc = "idle"
    /\ UNCHANGED <<exec, wait>>
    /\ \E token \in Tokens :
        /\ Start("trigger", token)
        /\ history' = IF initializeYandexDiskApi(token)
                      THEN [history EXCEPT !.captured = clock, !.retried = <<>>,
                                            !.deferred = {}]
                      ELSE history

\* the answer of api.recent() arrives in a scheduled invocation
CycleRecentAnswers ==
    /\ pc = "awaitRecent"
    /\ UNCHANGED <<exec, wait>>
    /\ \E response \in CycleResponses, helperOk \in BOOLEAN :
        /\ RecentAnswers(response, helperOk)
        /\ LET out == automatedBranch(response, cfg, startDate, endDate, helperOk,
                                      lastTimeChecked)
               received == responseItems(response)
               late == {received[i] : i \in {j \in 1..Len(received) :
                            /\ history.captured < DateGetTime(received[j].modified)
                            /\ DateGetTime(received[j].modified) <= clock}}
           IN  history' =
                 [captured |-> 0,
                  first |-> IF history.first = <<>> /\ out.lastTimeChecked # <<>>
                            THEN <<out.lastTimeChecked, history.captured>>
                            ELSE history.first,
                  gap |-> IF response.status = "resolved" THEN late ELSE history.gap,
                  failed |-> IF out.kind = "error" /\ out.lastTimeChecked # <<>>
                             THEN <<out.lastTimeChecked, endDate>>
                             ELSE <<>>,
                  retried |-> history.failed,
                  emitted |-> IF out.kind = "batch"
                              THEN history.emitted \cup
                                   {out.batches[1][i].json : i \in 1..Len(out.batches[1])}
                              ELSE history.emitted,
                  deferred |-> IF out.kind = "batch"
                               THEN history.gap \cap
                                    {out.batches[1][i].json : i \in 1..Len(out.batches[1])}
                               ELSE {}]

\* time passes while a request is in flight
TickInFlight ==
    /\ pc = "awaitRecent"
    /\ clock < MaxClock
    /\ clock < DateGetTime(endDate) + MaxFlight
    /\ clock' = clock + 1
    /\ UNCHANGED <<lastTimeChecked, pc, mode, cfg, startDate, endDate, fetch, result,
                   call, ret, requests, history, exec, wait>>

\* time passes between invocations: the host has taken the outcome of the
\* finished invocation, and only the static data and the parameters remain
Elapse ==
    /\ pc = "idle"
    /\ clock < MaxClock
    /\ clock' = clock + 1
    /\ startDate' = <<>>
    /\ endDate' = <<>>
    /\ fetch' = NoFetch
    /\ result' = NoResult
    /\ requests' = <<>>
    /\ UNCHANGED <<lastTimeChecked, pc, mode, cfg, call, ret>>

TickIdle == Elapse /\ UNCHANGED <<history, exec, wait>>

\* time passes between scheduled invocations: of the history, what concerned
\* the outcome of the finished cycle only is dropped with that outcome
CycleTickIdle ==
    /\ Elapse
    /\ history' = [history EXCEPT !.retried = <<>>, !.deferred = {}]
    /\ UNCHANGED <<exec, wait>>

----------------------------------------------------------------------------
(* Direct calls of the filter functions, on inputs drawn from bounded sets *)

\* the ISO string of the instant t
IsoString(t) == <<t \div TicksPerSec, t % TicksPerSec>>

\* window bounds and modification times of the direct calls
FilterDates == {IsoString(t) : t \in 0..MaxDate}

TimeItems == {Resource(<<"d", "i", "s", "k", ":", "/", "f">>, <<>>, <<0, 0>>, d) : d \in FilterDates}

\* the spellings of a scope given without prefix, slashes or spaces
Spelling(body, k) ==
    CASE k = 1 -> body
      [] k = 2 -> <<"/">> \o body
      [] k = 3 -> <<"d", "i", "s", "k", ":", "/">> \o body
      [] k = 4 -> body \o <<"/">>
      [] k = 5 -> <<"d", "i", "s", "k", ":", "/">> \o body \o <<"/">>
      [] k = 6 -> <<" ", " ">> \o body \o <<" ", " ">>

Spellings == 1..6

ScopeBodies == {<<"n", "8", "n">>, <<"n", "8", "n", "/", "s", "u", "b">>, <<"o", "t", "h", "e", "r">>}

RootScopes == {<<>>, <<"/">>, <<"d", "i", "s", "k", ":", "/">>}

TargetPaths == RootScopes \cup {Spelling(b, k) : b \in ScopeBodies, k \in Spellings}

PathItems ==
    {Resource(p, <<>>, <<0, 0>>, <<0, 0>>) :
        p \in {<<"d", "i", "s", "k", ":", "/", "n", "8", "n">>, <<"d", "i", "s", "k", ":", "/", "n", "8", "n", "/", "f", "1">>, <<"d", "i", "s", "k", ":", "/", "n", "8", "n", "/", "s", "u", "b", "/", "f", "2">>, <<"d", "i", "s", "k", ":", "/", "n", "8", "n", "1", "2", "3", "/", "f">>,
               <<"d", "i", "s", "k", ":", "/", "o", "t", "h", "e", "r", "/", "f", "3">>, <<"d", "i", "s", "k", ":", "/", "f", "4">>, <<"/", "n", "8", "n", "/", "a">>}}

\* the creation instant of the items given to filterByEventType
EventCreated == MaxDelta

\* items modified up to MaxDelta ticks before or after their creation
EventItems ==
    {Resource(<<"d", "i", "s", "k", ":", "/", "f">>, <<>>, IsoString(EventCreated), IsoString(EventCreated + d)) :
        d \in (0 - MaxDelta)..MaxDelta}

Events == {"created", "updated", "all", "unknown"}

MimeTypes ==
    {<<"i", "m", "a", "g", "e", "/", "p", "n", "g">>,
     <<"a", "p", "p", "l", "i", "c", "a", "t", "i", "o", "n", "/", "p", "d", "f">>,
     <<"t", "e", "x", "t", "/", "p", "l", "a", "i", "n">>,
     <<"v", "i", "d", "e", "o", "/", "m", "p", "4">>,
     <<"a", "u", "d", "i", "o", "/", "m", "p", "e", "g">>,
     <<"a", "p", "p", "l", "i", "c", "a", "t", "i", "o", "n", "/", "z", "i", "p">>,
     <<"a", "p", "p", "l", "i", "c", "a", "t", "i", "o", "n", "/", "j", "s", "o", "n">>,
     <<>>}

MimeItems == {Resource(<<"d", "i", "s", "k", ":", "/", "f">>, m, <<0, 0>>, <<0, 0>>) : m \in MimeTypes}

FileTypes == {"all", "document", "image", "video", "audio", "archive", "other"}

Limits == (0 - 1)..(MaxItems + 1)

Called(fn, items, start, end, targetPath) ==
    [fn |-> fn, items |-> items, start |-> start, end |-> end, targetPath |-> targetPath,
     param |-> ""]

\* a call whose second argument is an event, a category or a limit
CalledWith(fn, items, param) ==
    [fn |-> fn, items |-> items, start |-> <<>>, end |-> <<>>, targetPath |-> <<>>,
     param |-> param]

NoCall == Called("none", <<>>, <<>>, <<>>, <<>>)

\* the calls made directly: the function with its arguments
FilterCalls ==
    {Called("filterByModifiedTime", items, start, end, <<>>) :
        items \in SeqsUpTo(TimeItems, MaxItems), start \in FilterDates, end \in FilterDates}
    \cup
    {Called("filterByPath", items, <<>>, <<>>, targetPath) :
        items \in SeqsUpTo(PathItems, MaxItems), targetPath \in TargetPaths}
    \cup
    {CalledWith("filterByEventType", items, event) :
        items \in SeqsUpTo(EventItems, MaxItems), event \in Events}
    \cup
    {CalledWith("filterByFileType", items, fileType) :
        items \in SeqsUpTo(MimeItems, MaxItems), fileType \in FileTypes}
    \cup
    {CalledWith("applyLimit", items, limit) :
        items \in SeqsUpTo(TimeItems, MaxItems), limit \in Limits}

CallFilterByModifiedTime ==
    /\ pc = "called"
    /\ call.fn = "filterByModifiedTime"
    /\ ret' = filterByModifiedTime(call.items, call.start, call.end)
    /\ pc' = "returned"
    /\ UNCHANGED <<clock, lastTimeChecked, mode, cfg, startDate, endDate, fetch, result, call,
                   requests, history, exec, wait>>

CallFilterByPath ==
    /\ pc = "called"
    /\ call.fn = "filterByPath"
    /\ ret' = filterByPath(call.items, call.targetPath)
    /\ pc' = "returned"
    /\ UNCHANGED <<clock, lastTimeChecked, mode, cfg, startDate, endDate, fetch, result, call,
                   requests, history, exec, wait>>

CallFilterByEventType ==
    /\ pc = "called"
    /\ call.fn = "filterByEventType"
    /\ ret' = filterByEventType(call.items, call.param)
    /\ pc' = "returned"
    /\ UNCHANGED <<clock, lastTimeChecked, mode, cfg, startDate, endDate, fetch, result, call,
                   requests, history, exec, wait>>

CallFilterByFileType ==
    /\ pc = "called"
    /\ call.fn = "filterByFileType"
    /\ ret' = filterByFileType(call.items, call.param)
    /\ pc' = "returned"
    /\ UNCHANGED <<clock, lastTimeChecked, mode, cfg, startDate, endDate, fetch, result, call,
                   requests, history, exec, wait>>

CallApplyLimit ==
    /\ pc = "called"
    /\ call.fn = "applyLimit"
    /\ ret' = applyLimit(call.items, call.param)
    /\ pc' = "returned"
    /\ UNCHANGED <<clock, lastTimeChecked, mode, cfg, startDate, endDate, fetch, result, call,
                   requests, history, exec, wait>>

----------------------------------------------------------------------------
(* waitForOperation *)

\* waitForOperation's default timeout, 30000 ms, and interval, 1000 ms
DefaultTimeout == 30 * TicksPerSec

DefaultInterval == TicksPerSec

\* no call of waitForOperation is running
NoWait ==
    [pc |-> "none", timeout |-> 0, interval |-> 0, elapsed |-> 0, asked |-> FALSE,
     last |-> "", error |-> ""]

\* a call of waitForOperation before its first statement; elapsed is
\* Date.now() - startTime
WaitCalled(timeout, interval) ==
    [NoWait EXCEPT !.pc = "called", !.timeout = timeout, !.interval = interval]

\* what api.operation() answers: the status of the operation, or a rejection
OperationStatuses == {"success", "failed", "in-progress", "rejected"}

\* the head of the while loop: the next status request is sent, or the
\* timeout error is thrown
whileLoop(w) ==
    IF w.elapsed < w.timeout
    THEN [w EXCEPT !.pc = "request", !.asked = TRUE]
    ELSE [w EXCEPT !.pc = "thrown", !.error = "timeout"]

\* waitForOperation(api, operationId, timeout, interval) up to its first await
waitForOperation(timeout, interval) == whileLoop(WaitCalled(timeout, interval))

\* the status request answered, with any answer but 'failed' taken as success
statusAnswered_returnsUnlessFailed(w, status, d) ==
    LET now == [w EXCEPT !.elapsed = @ + d, !.last = status]
    IN  IF status = "rejected"
        THEN [now EXCEPT !.pc = "thrown", !.error = "rejected"]
        ELSE IF status = "failed"
        THEN [now EXCEPT !.pc = "thrown", !.error = "failed"]
        ELSE [now EXCEPT !.pc = "returned"]

\* the status request is answered after d ticks: return on 'success', throw
\* on 'failed' and on a rejection, otherwise start the timer
statusAnswered(w, status, d) ==
    LET now == [w EXCEPT !.elapsed = @ + d, !.last = status]
    IN  IF status = "rejected"
        THEN [now EXCEPT !.pc = "thrown", !.error = "rejected"]
        ELSE IF status = "success"
        THEN [now EXCEPT !.pc = "returned"]
        ELSE IF status = "failed"
        THEN [now EXCEPT !.pc = "thrown", !.error = "failed"]
        ELSE [now EXCEPT !.pc = "sleep"]

\* the timer of the interval fires, d ticks late, and the loop goes round
timerFired(w, d) == whileLoop([w EXCEPT !.elapsed = @ + w.interval + d])

WaitDone(w) == w.pc \in {"returned", "thrown"}

----------------------------------------------------------------------------
(* Yandex360Disk.execute and the operations with an operation link *)

\* the href of the body the remote answers with, as its path segments; <<>>
\* for a body without href
ResourceHref == <<"v1", "disk", "resources">>

OperationHref == <<"v1", "disk", "operations", "op1">>

Hrefs == {<<>>, ResourceHref, OperationHref}

\* isOperationLink(result): the href includes '/operations/'
isOperationLink(href) == \E k \in 1..(Len(href) - 1) : href[k] = "operations"

\* getOperationId(result): what follows the first '/operations/'; <<>> for ''
getOperationId(href) ==
    LET ks == {k \in 1..(Len(href) - 1) : href[k] = "operations"}
    IN  IF ks = {} THEN <<>>
        ELSE LET first == CHOOSE k \in ks : \A j \in ks : k <= j
             IN  SubSeq(href, first + 1, Len(href))

\* the parameters resource and operation, "other" standing for a value the
\* node does not know
NodeResources == {"file", "folder", "other"}

NodeOperations == {"delete", "copy", "move", "list", "other"}

\* the operations executeFileOperation and executeFolderOperation route
Routed(resource, operation) ==
    \/ resource = "file" /\ operation \in {"delete", "copy", "move"}
    \/ resource = "folder" /\ operation \in {"delete", "list"}

\* what the remote answers to remove, copy, move and info
ApiAnswers(operation) ==
    {[status |-> "rejected", code |-> c, href |-> <<>>, listed |-> 0] : c \in {404, 409, 500}}
    \cup (IF operation = "list"
          THEN {[status |-> "resolved", code |-> 200, href |-> <<>>, listed |-> k] :
                    k \in 0..MaxItems}
          ELSE {[status |-> "resolved", code |-> 200, href |-> h, listed |-> 0] :
                    h \in Hrefs})

\* no call of execute is running
NoExec ==
    [pc |-> "none", resource |-> "", operation |-> "", continueOnFail |-> FALSE,
     length |-> 0, waitForCompletion |-> <<>>, i |-> 0, returnData |-> <<>>,
     output |-> <<>>, error |-> "", message |-> "", log |-> <<>>]

\* a call of execute before its first statement: the parameters, the number
\* of input items and the waitForCompletion parameter of each item
ExecCalled(resource, operation, continueOnFail, waitForCompletion) ==
    [NoExec EXCEPT !.pc = "called", !.resource = resource, !.operation = operation,
                   !.continueOnFail = continueOnFail,
                   !.length = Len(waitForCompletion),
                   !.waitForCompletion = waitForCompletion]

ExecCalls ==
    {ExecCalled(r, o, c, w) :
        r \in NodeResources, o \in NodeOperations, c \in BOOLEAN,
        w \in UNION {[1..k -> BOOLEAN] : k \in 0..MaxInput}}

\* an entry of returnData made by an operation or by the catch of the loop
Entry(success, status, operationId, error, i) ==
    [json |-> [success |-> success, status |-> status, operationId |-> operationId,
               error |-> error],
     pairedItem |-> i]

\* an entry of returnData made by the list operation from the k-th listed item
ListEntry(k, i) == [json |-> [name |-> k], pairedItem |-> i]

\* what happened to an input item, kept beside returnData: whether the remote
\* answered with an operation link, whether a status request was sent, how
\* waitForOperation ended and whether the operation failed
Logged(link, w, failed) ==
    [link |-> link, asked |-> w.asked,
     outcome |-> IF w.pc = "returned" THEN "success" ELSE w.error,
     failed |-> failed]

RECURSIVE loop(_)

\* the catch of the loop dropping the failed item
catchItem_dropsItem(e, class, message, lg) ==
    LET logged == [e EXCEPT !.log = Append(@, lg)]
    IN  IF e.continueOnFail
        THEN loop([logged EXCEPT !.i = @ + 1])
        ELSE [logged EXCEPT !.pc = "thrown", !.error = class, !.message = message]

\* the catch of the loop: with continueOnFail an error entry is pushed and
\* the loop continues, otherwise the error is thrown out of execute
catchItem(e, class, message, lg) ==
    LET logged == [e EXCEPT !.log = Append(@, lg)]
    IN  IF e.continueOnFail
        THEN loop([logged EXCEPT
                     !.returnData = Append(@, Entry(FALSE, "", <<>>, message, e.i)),
                     !.i = @ + 1])
        ELSE [logged EXCEPT !.pc = "thrown", !.error = class, !.message = message]

\* the result of an operation is pushed and the loop continues
pushResult(e, entries, lg) ==
    loop([e EXCEPT !.returnData = @ \o entries, !.i = @ + 1, !.log = Append(@, lg)])

\* the for loop from item e.i on, up to the next await or to the end
loop(e) ==
    IF e.i < e.length
    THEN IF e.resource \notin {"file", "folder"}
         THEN catchItem(e, "NodeOperationError", "Unknown resource",
                        Logged(FALSE, NoWait, TRUE))
         ELSE IF ~Routed(e.resource, e.operation)
         THEN catchItem(e, "NodeOperationError", "Unknown operation",
                        Logged(FALSE, NoWait, TRUE))
         ELSE [e EXCEPT !.pc = "awaitApi"]
    ELSE [e EXCEPT !.pc = "returned", !.output = <<e.returnData>>]

\* execute() up to its first request
execute(e, token) ==
    IF initializeYandexDiskApi(token)
    THEN loop([e EXCEPT !.i = 0])
    ELSE [e EXCEPT !.pc = "thrown", !.error = "NodeApiError",
                   !.message = "An error occurred in Yandex 360 Disk node"]

\* the catch of an operation: 404, 409 for copy and move, anything else
catchOperation(e, code, lg) ==
    IF code = 404
    THEN catchItem(e, "NodeOperationError", "not found", lg)
    ELSE IF code = 409 /\ e.operation \in {"copy", "move"}
    THEN catchItem(e, "NodeOperationError", "already exists", lg)
    ELSE catchItem(e, "NodeApiError", "Failed", lg)

\* an operation after waitForOperation that takes a thrown wait as completed
afterWait_completedAnyway(e, w) ==
    IF WaitDone(w)
    THEN pushResult(e, <<Entry(TRUE, "completed", <<>>, "", e.i)>>, Logged(TRUE, w, FALSE))
    ELSE [e EXCEPT !.pc = "awaitStatus"]

\* an operation from the await of waitForOperation on
afterWait(e, w) ==
    IF w.pc = "returned"
    THEN pushResult(e, <<Entry(TRUE, "completed", <<>>, "", e.i)>>, Logged(TRUE, w, FALSE))
    ELSE IF w.pc = "thrown"
    THEN catchOperation(e, IF w.error = "rejected" THEN 500 ELSE 0, Logged(TRUE, w, TRUE))
    ELSE [e EXCEPT !.pc = "awaitStatus"]

\* executeFileDelete, executeFileCopy, executeFileMove, executeFolderDelete
\* and executeFolderList from the answer of the remote on: the new exec and
\* the new wait
operationAnswered(e, answer) ==
    IF answer.status = "rejected"
    THEN [exec |-> catchOperation(e, answer.code, Logged(FALSE, NoWait, TRUE)),
          wait |-> NoWait]
    ELSE IF e.operation = "list"
    THEN [exec |-> pushResult(e, [k \in 1..answer.listed |-> ListEntry(k, e.i)],
                              Logged(FALSE, NoWait, FALSE)),
          wait |-> NoWait]
    ELSE IF isOperationLink(answer.href)
    THEN IF e.waitForCompletion[e.i + 1]
         THEN LET w == waitForOperation(DefaultTimeout, DefaultInterval)
              IN  [exec |-> afterWait(e, w), wait |-> IF WaitDone(w) THEN NoWait ELSE w]
         ELSE [exec |-> pushResult(e, <<Entry(TRUE, "pending", getOperationId(answer.href),
                                               "", e.i)>>,
                                   Logged(TRUE, NoWait, FALSE)),
               wait |-> NoWait]
    ELSE [exec |-> pushResult(e, <<Entry(TRUE, "completed", <<>>, "", e.i)>>,
                              Logged(FALSE, NoWait, FALSE)),
          wait |-> NoWait]

\* execute() is called and runs to its first request
Execute ==
    /\ exec.pc = "called"
    /\ \E token \in Tokens : exec' = execute(exec, token)
    /\ UNCHANGED wait
    /\ UNCHANGED pollVars

\* the remote answers the request of the operation of item exec.i
OperationAnswers ==
    /\ exec.pc = "awaitApi"
    /\ \E answer \in ApiAnswers(exec.operation) :
        LET next == operationAnswered(exec, answer)
        IN  /\ exec' = next.exec
            /\ wait' = next.wait
    /\ UNCHANGED pollVars

\* the remote answers a status request of waitForOperation called by an
\* operation
StatusAnswers ==
    /\ exec.pc = "awaitStatus"
    /\ wait.pc = "request"
    /\ \E status \in OperationStatuses, d \in 0..MaxLatency :
        LET w == statusAnswered(wait, status, d)
        IN  /\ exec' = afterWait(exec, w)
            /\ wait' = IF WaitDone(w) THEN NoWait ELSE w
    /\ UNCHANGED pollVars

\* the timer of waitForOperation called by an operation fires
TimerFires ==
    /\ exec.pc = "awaitStatus"
    /\ wait.pc = "sleep"
    /\ \E d \in 0..MaxLatency :
        LET w == timerFired(wait, d)
        IN  /\ exec' = afterWait(exec, w)
            /\ wait' = IF WaitDone(w) THEN NoWait ELSE w
    /\ UNCHANGED pollVars

\* waitForOperation is called directly and runs to its first await
WaitCall ==
    /\ exec.pc = "none"
    /\ wait.pc = "called"
    /\ wait' = waitForOperation(wait.timeout, wait.interval)
    /\ UNCHANGED exec
    /\ UNCHANGED pollVars

\* the remote answers a status request of a direct call
WaitStatusAnswers ==
    /\ exec.pc = "none"
    /\ wait.pc = "request"
    /\ \E status \in OperationStatuses, d \in 0..MaxLatency :
        wait' = statusAnswered(wait, status, d)
    /\ UNCHANGED exec
    /\ UNCHANGED pollVars

\* the timer of a direct call fires
WaitTimerFires ==
    /\ exec.pc = "none"
    /\ wait.pc = "sleep"
    /\ \E d \in 0..MaxLatency : wait' = timerFired(wait, d)
    /\ UNCHANGED exec
    /\ UNCHANGED pollVars

----------------------------------------------------------------------------
(* Specifications *)

Init ==
    /\ clock = 0
    /\ lastTimeChecked = <<>>
    /\ pc = "idle"
    /\ mode = "trigger"
    /\ cfg \in Configs
    /\ startDate = <<>>
    /\ endDate = <<>>
    /\ fetch = NoFetch
    /\ result = NoResult
    /\ call = NoCall
    /\ ret = <<>>
    /\ requests = <<>>
    /\ history = NoHistory
    /\ exec = NoExec
    /\ wait = NoWait

Next == PollStart \/ PollRecentAnswers \/ TickInFlight \/ TickIdle

Spec == Init /\ [][Next]_vars

InitCycles ==
    /\ clock = 0
    /\ lastTimeChecked = <<>>
    /\ pc = "idle"
    /\ mode = "trigger"
    /\ cfg \in CycleConfigs
    /\ startDate = <<>>
    /\ endDate = <<>>
    /\ fetch = NoFetch
    /\ result = NoResult
    /\ call = NoCall
    /\ ret = <<>>
    /\ requests = <<>>
    /\ history = NoHistory
    /\ exec = NoExec
    /\ wait = NoWait

NextCycles == CycleStart \/ CycleRecentAnswers \/ TickInFlight \/ CycleTickIdle

SpecCycles == InitCycles /\ [][NextCycles]_vars

InitFilters ==
    /\ clock = 0
    /\ lastTimeChecked = <<>>
    /\ pc = "called"
    /\ mode = "trigger"
    /\ cfg = NoConfig
    /\ startDate = <<>>
    /\ endDate = <<>>
    /\ fetch = NoFetch
    /\ result = NoResult
    /\ call \in FilterCalls
    /\ ret = <<>>
    /\ requests = <<>>
    /\ history = NoHistory
    /\ exec = NoExec
    /\ wait = NoWait

NextFilters ==
    \/ CallFilterByModifiedTime
    \/ CallFilterByPath
    \/ CallFilterByEventType
    \/ CallFilterByFileType
    \/ CallApplyLimit

SpecFilters == InitFilters /\ [][NextFilters]_vars

\* the state of the trigger while the node or waitForOperation runs
PollerIdle ==
    /\ clock = 0
    /\ lastTimeChecked = <<>>
    /\ pc = "idle"
    /\ mode = "trigger"
    /\ cfg = NoConfig
    /\ startDate = <<>>
    /\ endDate = <<>>
    /\ fetch = NoFetch
    /\ result = NoResult
    /\ call = NoCall
    /\ ret = <<>>
    /\ requests = <<>>
    /\ history = NoHistory

InitExecute ==
    /\ PollerIdle
    /\ exec \in ExecCalls
    /\ wait = NoWait

NextExecute == Execute \/ OperationAnswers \/ StatusAnswers \/ TimerFires

SpecExecute == InitExecute /\ [][NextExecute]_vars

InitWait ==
    /\ PollerIdle
    /\ exec = NoExec
    /\ wait \in {WaitCalled(t, i) : t \in 0..MaxTimeout, i \in 1..MaxInterval}

NextWait == WaitCall \/ WaitStatusAnswers \/ WaitTimerFires

SpecWait == InitWait /\ [][NextWait]_vars

\* every status request is answered and every timer fires
FairWait == SpecWait /\ WF_vars(NextWait)

----------------------------------------------------------------------------
(* Properties of poll() *)

\* poll() has just finished an invocation in which api.recent() answered
AutomatedDone == pc = "idle" /\ mode = "trigger" /\ fetch.status # "none"

ManualDone == pc = "idle" /\ mode = "manual" /\ fetch.status # "none"

\* the step in which an invocation of the given mode runs to its end
Finishes(m) == pc = "awaitRecent" /\ pc' = "idle" /\ mode = m

\* the items of the returned batch; none when poll() returned null or threw
Emitted ==
    IF result.kind = "batch"
    THEN [i \in 1..Len(result.batches[1]) |-> result.batches[1][i].json]
    ELSE <<>>

\* C1: a manual-mode invocation, whether it returns a batch or fails, leaves
\* lastTimeChecked as it was; lastTimeChecked changes only in the step that
\* finishes an automated cycle.
C1_ManualLeavesCheckpoint ==
    [][/\ mode' = "manual" => lastTimeChecked' = lastTimeChecked
       /\ lastTimeChecked' # lastTimeChecked => Finishes("trigger")]_vars

\* a manual invocation has returned a batch while a checkpoint older than the
\* captured window end is persisted
C1_Witness ==
    /\ ManualDone
    /\ result.kind = "batch"
    /\ lastTimeChecked # <<>>
    /\ lastTimeChecked # endDate

\* C2: an automated cycle never moves the checkpoint backwards, and a cycle
\* whose fetch succeeds sets it to the window end captured once when the cycle
\* started, also when no item survives the filters.
C2_CheckpointMonotone ==
    [][/\ Finishes("trigger") =>
            /\ lastTimeChecked # <<>> =>
                    /\ lastTimeChecked' # <<>>
                    /\ DateGetTime(lastTimeChecked') >= DateGetTime(lastTimeChecked)
            /\ fetch'.status = "resolved" => lastTimeChecked' = endDate
       /\ (pc = "idle" /\ pc' = "awaitRecent") =>
            /\ DateGetTime(endDate') <= clock
            /\ clock < DateGetTime(endDate') + TicksPerSec
       /\ pc = "awaitRecent" => endDate' = endDate]_vars

\* an automated cycle found nothing and moved the checkpoint forward, to a
\* window end captured before the answer arrived
C2_Witness ==
    /\ AutomatedDone
    /\ result.kind = "null"
    /\ fetch.status = "resolved"
    /\ lastTimeChecked = endDate
    /\ startDate # endDate
    /\ clock >= DateGetTime(endDate) + TicksPerSec

\* C3: when api.recent() fails in an automated cycle, poll() throws and the
\* checkpoint keeps its value; the next cycle starts its window from the
\* persisted checkpoint.
C3_FailedFetchKeepsCheckpoint ==
    [][/\ (Finishes("trigger") /\ fetch'.status = "rejected") =>
            /\ result'.kind = "error"
            /\ lastTimeChecked' = lastTimeChecked
       /\ (pc = "idle" /\ pc' = "awaitRecent" /\ lastTimeChecked # <<>>) =>
            startDate' = lastTimeChecked]_vars

\* an automated cycle failed on the fetch with a checkpoint persisted that
\* differs from the window end of the failed cycle
C3_Witness ==
    /\ AutomatedDone
    /\ fetch.status = "rejected"
    /\ result.kind = "error"
    /\ lastTimeChecked # <<>>
    /\ lastTimeChecked = startDate
    /\ startDate # endDate

\* the stages seen from one item: the stage keeps the item when it is given alone
InWindow(item) == filterByModifiedTime(<<item>>, startDate, endDate) = <<item>>

EventMatches(item) == filterByEventType(<<item>>, cfg.event) = <<item>>

PathMatches(item) ==
    cfg.location = "specificPath" => filterByPath(<<item>>, cfg.path) = <<item>>

TypeMatches(item) == filterByFileType(<<item>>, cfg.fileType) = <<item>>

\* the items of the answer that pass every filter, in the order of the answer
Survivors ==
    SelectSeq(responseItems(fetch), LAMBDA item :
        InWindow(item) /\ EventMatches(item) /\ PathMatches(item) /\ TypeMatches(item))

\* the configured limit, 50 when none is configured
ConfiguredLimit == IF cfg.limit = 0 THEN 50 ELSE cfg.limit

Take(s, n) == SubSeq(s, 1, Min(n, Len(s)))

\* C4: an automated cycle that does not fail returns null exactly when no item
\* survives the filters, and otherwise exactly one batch that is not empty.
C4_NoDataSentinel ==
    (AutomatedDone /\ result.kind # "error") =>
        /\ result.kind \in {"null", "batch"}
        /\ result.kind = "null" <=> Survivors = <<>>
        /\ result.kind = "null" => result.batches = <<>>
        /\ result.kind = "batch" =>
                /\ Len(result.batches) = 1
                /\ Len(result.batches[1]) > 0

\* the API returned items and the cycle returned null, all of them filtered away
C4_Witness ==
    /\ AutomatedDone
    /\ result.kind = "null"
    /\ Len(responseItems(fetch)) > 0
    /\ startDate # endDate

\* C6: the batch of an automated cycle is the first `limit` items, in the order
\* of the answer, of the items that pass the time window, the event type, the
\* path scope (when location = specificPath) and the media type.
C6_PipelineOrder ==
    (AutomatedDone /\ result.kind # "error") =>
        Emitted = Take(Survivors, ConfiguredLimit)

\* with limit 1 the first item of the answer was filtered away and a later one
\* was emitted
C6_Witness ==
    /\ AutomatedDone
    /\ result.kind = "batch"
    /\ cfg.limit = 1
    /\ Len(responseItems(fetch)) >= 2
    /\ Emitted = <<responseItems(fetch)[2]>>

\* C7: with checkpoint T0 (second 0), the answer <<A, B>>, event created,
\* location specificPath "/n8n", fileType all and limit 50, the automated
\* cycle with window end T0 + 5 s returns exactly <<A>> and sets the
\* checkpoint to T0 + 5 s.
C7_EndToEndScenario ==
    ( /\ AutomatedDone
      /\ result.kind # "error"
      /\ startDate = <<0, 0>>
      /\ endDate = <<5, 0>>
      /\ cfg = Config("created", "specificPath", <<"/", "n", "8", "n">>, "all", 50)
      /\ fetch.status = "resolved"
      /\ responseItems(fetch) = <<ItemA, ItemB>> ) =>
        /\ result.kind = "batch"
        /\ Emitted = <<ItemA>>
        /\ lastTimeChecked = <<5, 0>>

\* a path is located under a scope: the path, with or without the 'disk:'
\* prefix, is the scope or continues it after a '/'
LocatedUnder(path, scope) ==
    LET bare == IF StartsWith(path, <<"d", "i", "s", "k", ":">>)
                THEN SubSeq(path, Len(<<"d", "i", "s", "k", ":">>) + 1, Len(path)) ELSE path
    IN  bare = scope \/ StartsWith(bare, scope \o <<"/">>)

\* C8: with location specificPath and path "/Documents", the batch holds,
\* among the items of the answer that are in the window and match the event,
\* exactly those located under "/Documents", also when the API reports paths
\* without the 'disk:' prefix.
C8_SpecificPathDocuments ==
    ( /\ AutomatedDone
      /\ result.kind # "error"
      /\ cfg.location = "specificPath"
      /\ cfg.path = <<"/", "D", "o", "c", "u", "m", "e", "n", "t", "s">>
      /\ cfg.fileType = "all"
      /\ cfg.limit # 1 ) =>
        Emitted = SelectSeq(responseItems(fetch), LAMBDA item :
                      /\ InWindow(item)
                      /\ EventMatches(item)
                      /\ LocatedUnder(item.path, <<"/", "D", "o", "c", "u", "m", "e", "n", "t", "s">>))

----------------------------------------------------------------------------
(* Properties of the filter functions *)

FilterReturned(fn) == pc = "returned" /\ call.fn = fn

\* item i of the call's items is at some position of the result
Kept(i) == \E j \in 1..Len(ret) : ret[j] = call.items[i]

\* C5: filterByModifiedTime keeps exactly the items modified after the start
\* of the window and not after its end: an item modified at the start is
\* dropped, an item modified at the end is kept.
C5_WindowHalfOpen ==
    FilterReturned("filterByModifiedTime") =>
        LET startTime == DateGetTime(call.start)
            endTime == DateGetTime(call.end)
            inside == {i \in 1..Len(call.items) :
                          /\ startTime < DateGetTime(call.items[i].modified)
                          /\ DateGetTime(call.items[i].modified) <= endTime}
        IN  /\ \A i \in 1..Len(call.items) : Kept(i) <=> i \in inside
            /\ Len(ret) = Cardinality(inside)
            /\ \A i \in 1..Len(call.items) :
                    /\ call.items[i].modified = call.start => ~Kept(i)
                    /\ (call.items[i].modified = call.end /\ startTime < endTime) => Kept(i)

\* of an item modified at the start of the window and one modified at its end,
\* only the second is kept
C5_Witness ==
    /\ FilterReturned("filterByModifiedTime")
    /\ Len(call.items) = 2
    /\ call.items[1].modified = call.start
    /\ call.items[2].modified = call.end
    /\ ret = <<call.items[2]>>

\* the segments of a path between its '/' characters
RECURSIVE Segments(_)
Segments(s) ==
    IF \A i \in 1..Len(s) : s[i] # "/" THEN <<s>>
    ELSE LET i == CHOOSE k \in 1..Len(s) : s[k] = "/" /\ \A h \in 1..(k - 1) : s[h] # "/"
         IN  <<SubSeq(s, 1, i - 1)>> \o Segments(SubSeq(s, i + 1, Len(s)))

IsPrefixSeq(p, s) == Len(p) <= Len(s) /\ SubSeq(s, 1, Len(p)) = p

C10_SpellingsAgree ==
    FilterReturned("filterByPath") =>
        \A b \in ScopeBodies, k \in Spellings :
            call.targetPath = Spelling(b, k) =>
                \A other \in Spellings :
                    filterByPath(call.items, Spelling(b, other)) = ret

\* the scope was spelled with surrounding spaces and the call kept one of two items
C10_Witness ==
    /\ FilterReturned("filterByPath")
    /\ call.targetPath = Spelling(<<"n", "8", "n">>, 6)
    /\ Len(call.items) = 2
    /\ Len(ret) = 1

----------------------------------------------------------------------------
(* Properties of filterByEventType, filterByFileType and applyLimit *)

\* modification instant minus creation instant of item i of the call, in ticks
Delta(i) == DateGetTime(call.items[i].modified) - DateGetTime(call.items[i].created)

\* C11: an item modified at its creation instant is kept by 'created' and
\* dropped by 'updated'; an item modified 1.5 s after its creation is kept by
\* 'updated' and dropped by 'created'; an item modified 0.5 s after its
\* creation is kept by 'created' and dropped by 'updated'.
C11_EventClassification ==
    FilterReturned("filterByEventType") =>
        \A i \in 1..Len(call.items) :
            /\ (Delta(i) = 0 /\ call.param = "created") => Kept(i)
            /\ (Delta(i) = 0 /\ call.param = "updated") => ~Kept(i)
            /\ (2 * Delta(i) = 3 * TicksPerSec /\ call.param = "updated") => Kept(i)
            /\ (2 * Delta(i) = 3 * TicksPerSec /\ call.param = "created") => ~Kept(i)
            /\ (2 * Delta(i) = TicksPerSec /\ call.param = "created") => Kept(i)
            /\ (2 * Delta(i) = TicksPerSec /\ call.param = "updated") => ~Kept(i)

\* of an item modified 0.5 s after its creation and one modified 1.5 s after
\* it, 'created' has kept the first only
C11_Witness ==
    /\ FilterReturned("filterByEventType")
    /\ call.param = "created"
    /\ Len(call.items) = 2
    /\ 2 * Delta(1) = TicksPerSec
    /\ 2 * Delta(2) = 3 * TicksPerSec
    /\ ret = <<call.items[1]>>

\* C12 as stated: an item modified exactly one second after its creation is
\* kept by 'updated' and dropped by 'created'.
C12_ExactSecondIsUpdated ==
    FilterReturned("filterByEventType") =>
        \A i \in 1..Len(call.items) :
            Delta(i) = TicksPerSec =>
                /\ call.param = "updated" => Kept(i)
                /\ call.param = "created" => ~Kept(i)

\* C12: an item modified exactly one second after its creation is dropped by
\* 'created' and dropped by 'updated' as well: it belongs to neither class.
C12_ExactSecondIsNeither ==
    FilterReturned("filterByEventType") =>
        \A i \in 1..Len(call.items) :
            (Delta(i) = TicksPerSec /\ call.param \in {"created", "updated"}) => ~Kept(i)

\* 'updated' has dropped an item modified exactly one second after its creation
C12_Witness ==
    /\ FilterReturned("filterByEventType")
    /\ call.param = "updated"
    /\ Len(call.items) = 1
    /\ Delta(1) = TicksPerSec
    /\ ret = <<>>

\* C13 as stated: every item modified more than 0 s and at most 1 s after its
\* creation is kept by 'created' and not kept by 'updated'.
C13_WithinOneSecondClosed ==
    FilterReturned("filterByEventType") =>
        \A i \in 1..Len(call.items) :
            (0 < Delta(i) /\ Delta(i) <= TicksPerSec) =>
                /\ call.param = "created" => Kept(i)
                /\ call.param = "updated" => ~Kept(i)

\* C13: every item modified more than 0 s and less than 1 s after its
\* creation is kept by 'created' and not kept by 'updated'; at exactly 1 s
\* the item is not kept by 'updated' and not kept by 'created' either.
C13_WithinOneSecondOpen ==
    FilterReturned("filterByEventType") =>
        \A i \in 1..Len(call.items) :
            /\ (0 < Delta(i) /\ Delta(i) < TicksPerSec) =>
                    /\ call.param = "created" => Kept(i)
                    /\ call.param = "updated" => ~Kept(i)
            /\ Delta(i) = TicksPerSec =>
                    /\ call.param = "created" => ~Kept(i)
                    /\ call.param = "updated" => ~Kept(i)

\* of an item modified 0.5 s after its creation and one modified 1 s after
\* it, 'created' has kept the first only
C13_Witness ==
    /\ FilterReturned("filterByEventType")
    /\ call.param = "created"
    /\ Len(call.items) = 2
    /\ 0 < Delta(1)
    /\ Delta(1) < TicksPerSec
    /\ Delta(2) = TicksPerSec
    /\ ret = <<call.items[1]>>

\* C14: applyLimit with a cap of zero or less returns the items unchanged;
\* with a cap N, 0 < N < total, it returns the first N items in their order;
\* with a cap of the total or more it returns all the items.
C14_ResultCap ==
    FilterReturned("applyLimit") =>
        LET cap == call.param
            total == Len(call.items)
        IN  /\ cap <= 0 => ret = call.items
            /\ (0 < cap /\ cap < total) =>
                    /\ Len(ret) = cap
                    /\ \A j \in 1..cap : ret[j] = call.items[j]
            /\ cap >= total => ret = call.items

\* a cap of one has cut two items down to the first
C14_Witness ==
    /\ FilterReturned("applyLimit")
    /\ call.param = 1
    /\ Len(call.items) = 2
    /\ ret = <<call.items[1]>>

\* the categories that have MIME prefixes of their own
Categories == {"document", "image", "video", "audio", "archive"}

\* C15: for a category with prefixes of its own, filterByFileType keeps an
\* item exactly when its MIME type starts with one of the prefixes of the
\* category; 'image/png' passes 'image' and fails 'document'; an item without
\* MIME type is kept by 'all' and by none of these categories.
C15_MediaTypeFilter ==
    FilterReturned("filterByFileType") =>
        \A i \in 1..Len(call.items) :
            LET mimeType == call.items[i].mime_type
            IN  /\ call.param \in Categories =>
                    (Kept(i) <=> \E k \in 1..Len(typeMap[call.param]) :
                                    IsPrefixSeq(typeMap[call.param][k], mimeType))
                /\ (mimeType = <<"i", "m", "a", "g", "e", "/", "p", "n", "g">> /\ call.param = "image") => Kept(i)
                /\ (mimeType = <<"i", "m", "a", "g", "e", "/", "p", "n", "g">> /\ call.param = "document") => ~Kept(i)
                /\ (mimeType = <<>> /\ call.param = "all") => Kept(i)
                /\ (mimeType = <<>> /\ call.param \in Categories) => ~Kept(i)

\* of an item without MIME type and an 'image/png' item, 'image' has kept the
\* second only
C15_Witness ==
    /\ FilterReturned("filterByFileType")
    /\ call.param = "image"
    /\ Len(call.items) = 2
    /\ call.items[1].mime_type = <<>>
    /\ call.items[2].mime_type = <<"i", "m", "a", "g", "e", "/", "p", "n", "g">>
    /\ ret = <<call.items[2]>>

\* C16: filterByFileType with a category that is none of all, document,
\* image, video, audio, archive returns every item, as 'all' does.
C16_UnknownCategoryPassesAll ==
    (FilterReturned("filterByFileType") /\ call.param \notin Categories \cup {"all"}) =>
        ret = call.items

----------------------------------------------------------------------------
(* Properties of successive cycles *)

\* the items of the answer and of the returned batch, as sets
ReceivedSet == {responseItems(fetch)[i] : i \in 1..Len(responseItems(fetch))}

EmittedSet == {Emitted[i] : i \in 1..Len(Emitted)}

PassesStages(item) ==
    InWindow(item) /\ EventMatches(item) /\ PathMatches(item) /\ TypeMatches(item)

\* the item at position i of the answer is among the first ConfiguredLimit
\* items that pass the filters
WithinCap(i) ==
    Cardinality({j \in 1..i : PassesStages(responseItems(fetch)[j])}) <= ConfiguredLimit

\* a first run: without a checkpoint the window starts and ends at the 'now'
\* of the cycle, nothing is emitted and the checkpoint is written
FirstRunStep ==
    (Finishes("trigger") /\ lastTimeChecked = <<>> /\ fetch'.status = "resolved") =>
        /\ startDate = MomentUtcFormat(history.captured)
        /\ endDate = startDate
        /\ result'.kind = "null"
        /\ lastTimeChecked' = endDate

\* C17 as stated: a first run starts its window at the current time, emits
\* nothing and writes the checkpoint, and every item an automated cycle ever
\* emits was modified after the instant of the first run.
C17_FirstRunOnlyLater ==
    /\ [][FirstRunStep]_vars
    /\ [](AutomatedDone /\ history.first # <<>> =>
            \A item \in EmittedSet : DateGetTime(item.modified) > history.first[2])

\* C17: a first run starts its window at the current time cut to the whole
\* second, emits nothing and writes that instant as the checkpoint, and every
\* item an automated cycle ever emits was modified after the checkpoint the
\* first run wrote.
C17_FirstRunAfterCheckpoint ==
    /\ [][FirstRunStep]_vars
    /\ [](AutomatedDone /\ history.first # <<>> =>
            \A item \in EmittedSet :
                DateGetTime(item.modified) > DateGetTime(history.first[1]))

\* a first run received an item modified before its window and returned
\* null, writing the checkpoint
C17_Witness ==
    /\ AutomatedDone
    /\ history.first # <<>>
    /\ history.first[1] = endDate
    /\ startDate = endDate
    /\ lastTimeChecked = endDate
    /\ \E item \in ReceivedSet : DateGetTime(item.modified) <= DateGetTime(endDate)
    /\ result.kind = "null"

\* building the batch failed after the answer arrived with items
HelperThrew ==
    /\ fetch.status = "resolved"
    /\ responseItems(fetch) # <<>>
    /\ result.kind = "error"
    /\ result.message # "No recent files found in Yandex Disk"

\* C18: a manual invocation sends one request, api.recent({limit: 1}); when
\* the answer has no items it throws 'No recent files found in Yandex Disk',
\* otherwise it returns the items of the answer as one batch.
C18_ManualPreview ==
    ManualDone =>
        /\ requests = <<[limit |-> 1, media_type |-> ""]>>
        /\ (fetch.status = "resolved" /\ responseItems(fetch) = <<>>) =>
                /\ result.kind = "error"
                /\ result.error = "NodeApiError"
                /\ result.message = "No recent files found in Yandex Disk"
        /\ (fetch.status = "resolved" /\ responseItems(fetch) # <<>> /\ ~HelperThrew) =>
                /\ result.kind = "batch"
                /\ Len(result.batches) = 1
                /\ Emitted = responseItems(fetch)

\* a manual invocation returned the two items of the answer as its batch
C18_Witness ==
    /\ ManualDone
    /\ Len(requests) = 1
    /\ requests[1].limit = 1
    /\ Len(responseItems(fetch)) = 2
    /\ result.kind = "batch"
    /\ Emitted = responseItems(fetch)

\* C19 as stated: an item modified after the cycle took its window end and
\* not after the answer of api.recent() is emitted neither by that cycle nor
\* by a later one, its modification time being at most the checkpoint the
\* cycle wrote.
C19_GapItemLost ==
    /\ [][(Finishes("trigger") /\ fetch'.status = "resolved") =>
            \A item \in ReceivedSet' :
                (/\ history.captured < DateGetTime(item.modified)
                 /\ DateGetTime(item.modified) <= clock) =>
                    /\ item \notin EmittedSet'
                    /\ DateGetTime(item.modified) <= DateGetTime(lastTimeChecked')]_vars
    /\ [][Finishes("trigger") => \A item \in history.gap : item \notin EmittedSet']_vars

\* C19: an item modified after the cycle took its window end and not after
\* the answer of api.recent() is not emitted by that cycle, but its
\* modification time is after the checkpoint the cycle wrote: a later cycle
\* that receives it, whose window holds its modification time and whose other
\* stages it passes, emits it.
C19_GapItemDeferred ==
    [][(Finishes("trigger") /\ fetch'.status = "resolved") =>
            /\ \A item \in ReceivedSet' :
                (/\ history.captured < DateGetTime(item.modified)
                 /\ DateGetTime(item.modified) <= clock) =>
                    /\ item \notin EmittedSet'
                    /\ DateGetTime(item.modified) > DateGetTime(lastTimeChecked')
            /\ \A i \in 1..Len(responseItems(fetch')) :
                (/\ responseItems(fetch')[i] \in history.gap
                 /\ result'.kind # "error"
                 /\ PassesStages(responseItems(fetch)[i])'
                 /\ WithinCap(i)') =>
                    responseItems(fetch')[i] \in EmittedSet']_vars

\* a cycle has emitted an item that an earlier cycle received in its gap
C19_Witness ==
    /\ AutomatedDone
    /\ result.kind = "batch"
    /\ \E item \in history.deferred :
        /\ item \in EmittedSet
        /\ DateGetTime(item.modified) > DateGetTime(startDate)

\* C20: when an automated cycle has failed and left the checkpoint C, the next
\* cycle starts its window at C, and when it succeeds it emits every item of
\* the answer modified after C and not after the window end of the failed cycle
\* that passes the event, path and type filters within the limit.
C20_RetryFailedWindow ==
    (AutomatedDone /\ history.retried # <<>> /\ result.kind \in {"null", "batch"}) =>
        /\ startDate = history.retried[1]
        /\ \A i \in 1..Len(responseItems(fetch)) :
            LET item == responseItems(fetch)[i]
            IN  (/\ DateGetTime(history.retried[1]) < DateGetTime(item.modified)
                 /\ DateGetTime(item.modified) <= DateGetTime(history.retried[2])
                 /\ EventMatches(item)
                 /\ PathMatches(item)
                 /\ TypeMatches(item)
                 /\ WithinCap(i)) =>
                    item \in EmittedSet

\* the cycle after a failed one has emitted an item modified in the window of
\* the failed cycle
C20_Witness ==
    /\ AutomatedDone
    /\ result.kind = "batch"
    /\ history.retried # <<>>
    /\ \E item \in EmittedSet :
        /\ DateGetTime(history.retried[1]) < DateGetTime(item.modified)
        /\ DateGetTime(item.modified) <= DateGetTime(history.retried[2])

----------------------------------------------------------------------------
(* Properties of the errors of poll() *)

\* C21 as stated: whenever poll() throws, the checkpoint is unchanged, and
\* whenever the checkpoint changes, poll() returns a batch or null.
C21_NoPartialSuccess ==
    [][/\ result'.kind = "error" => lastTimeChecked' = lastTimeChecked
       /\ lastTimeChecked' # lastTimeChecked => result'.kind \in {"batch", "null"}]_vars

\* C21: whenever poll() throws for a missing token, a failed fetch or an empty
\* manual preview, the checkpoint is unchanged; when building the batch fails
\* in an automated cycle poll() throws with the checkpoint already moved to the
\* window end; whenever the checkpoint changes, poll() returns a batch or null
\* or throws for that failure.
C21_PartialSuccessOnlyAtBatch ==
    [][/\ (result'.kind = "error" /\ ~(mode' = "trigger" /\ HelperThrew')) =>
            lastTimeChecked' = lastTimeChecked
       /\ (Finishes("trigger") /\ HelperThrew') => lastTimeChecked' = endDate
       /\ lastTimeChecked' # lastTimeChecked =>
            \/ result'.kind \in {"batch", "null"}
            \/ mode' = "trigger" /\ HelperThrew']_vars

\* an automated cycle threw while building the batch and left the checkpoint
\* moved to its window end
C21_Witness ==
    /\ AutomatedDone
    /\ HelperThrew
    /\ lastTimeChecked = endDate
    /\ startDate # endDate

\* an invocation ended with the credentials refused
TokenRefused == pc = "idle" /\ fetch.status = "none" /\ result.kind # "none"

----------------------------------------------------------------------------
(* Properties of the request and of repeated emission *)

\* C23: the request of an automated cycle has the limit min(configured limit,
\* 1000), 50 when none is configured, and a media_type exactly when the
\* configured file type maps to one: 'image' sends 'image', 'all' and an unset
\* file type send none.
C23_RequestOptions ==
    (mode = "trigger" /\ requests # <<>>) =>
        LET fileType == IF cfg.fileType = "" THEN "all" ELSE cfg.fileType
        IN  /\ Len(requests) = 1
            /\ requests[1].limit = (IF cfg.limit = 0 THEN 50
                                    ELSE IF cfg.limit > 1000 THEN 1000 ELSE cfg.limit)
            /\ cfg.fileType = "image" => requests[1].media_type = "image"
            /\ cfg.fileType \in {"all", ""} => requests[1].media_type = ""
            /\ requests[1].media_type # "" <=> FILE_TYPE_TO_MEDIA_TYPE(fileType) # ""

\* a cycle configured with the limit 2000 and the file type 'image' has sent
\* the limit 1000 and the media_type 'image'
C23_Witness ==
    /\ pc = "awaitRecent"
    /\ mode = "trigger"
    /\ cfg.limit = 2000
    /\ requests = <<[limit |-> 1000, media_type |-> "image"]>>

\* C25: over the automated cycles, run one after the other on a clock that
\* does not run backwards, no item is returned in the batches of two cycles.
C25_AtMostOnce ==
    [][Finishes("trigger") => EmittedSet' \cap history.emitted = {}]_vars

\* a cycle received an item again that an earlier cycle had emitted and that
\* passes its event, path and type filters, and left it out as modified before
\* its window
C25_Witness ==
    /\ AutomatedDone
    /\ fetch.status = "resolved"
    /\ \E item \in history.emitted \cap ReceivedSet :
        /\ item \notin EmittedSet
        /\ EventMatches(item)
        /\ PathMatches(item)
        /\ TypeMatches(item)
        /\ DateGetTime(item.modified) <= DateGetTime(startDate)

----------------------------------------------------------------------------
(* Properties common to the filter stages *)

\* r is s with some of its elements left out
RECURSIVE IsSubseq(_, _)
IsSubseq(r, s) ==
    \/ r = <<>>
    \/ /\ s # <<>>
       /\ IF Head(r) = Head(s) THEN IsSubseq(Tail(r), Tail(s)) ELSE IsSubseq(r, Tail(s))

\* C24: each of filterByModifiedTime, filterByEventType, filterByPath,
\* filterByFileType and applyLimit returns some of the items it was given, in
\* the order it was given them; given no items it returns none; the items of
\* the caller are after the call what they were before it.
C24_StagesSelect ==
    /\ [](pc = "returned" =>
            /\ IsSubseq(ret, call.items)
            /\ call.items = <<>> => ret = <<>>)
    /\ [][call' = call]_vars

\* filterByModifiedTime was given two items and returned the second only
C24_Witness ==
    /\ FilterReturned("filterByModifiedTime")
    /\ Len(call.items) = 2
    /\ ret = <<call.items[2]>>

\* C29: no item is kept by filterByEventType both with 'created' and with
\* 'updated', whatever its creation and modification times are.
C29_CreatedUpdatedExclusive ==
    FilterReturned("filterByEventType") =>
        \A i \in 1..Len(call.items) :
            /\ (call.param = "created" /\ Kept(i)) =>
                    filterByEventType(<<call.items[i]>>, "updated") = <<>>
            /\ (call.param = "updated" /\ Kept(i)) =>
                    filterByEventType(<<call.items[i]>>, "created") = <<>>

\* 'created' has kept an item modified half a second after its creation, and
\* 'updated' has kept one modified a second and a half after it
C29_Witness ==
    /\ FilterReturned("filterByEventType")
    /\ Len(call.items) = 2
    /\ 2 * Delta(1) = TicksPerSec
    /\ 2 * Delta(2) = 3 * TicksPerSec
    /\ \/ call.param = "created" /\ ret = <<call.items[1]>>
       \/ call.param = "updated" /\ ret = <<call.items[2]>>

----------------------------------------------------------------------------
(* The manual branch and the configuration *)

\* what a manual invocation returns for an answer, written without the
\* configuration and without the checkpoint; ok is whether building the batch
\* succeeded
ManualOutcome(response, ok) ==
    IF response.status = "rejected"
    THEN [kind |-> "error", message |-> "Failed to fetch recent files from Yandex Disk",
          batches |-> <<>>]
    ELSE IF responseItems(response) = <<>>
    THEN [kind |-> "error", message |-> "No recent files found in Yandex Disk",
          batches |-> <<>>]
    ELSE IF ~ok
    THEN [kind |-> "error", message |-> "Failed to fetch recent files from Yandex Disk",
          batches |-> <<>>]
    ELSE [kind |-> "batch", message |-> "",
          batches |-> <<[i \in 1..Len(response.items) |-> [json |-> response.items[i]]]>>]

\* C30: what a manual invocation returns is determined by the answer of the
\* remote API alone: the same answer gives the same batch or the same error
\* whatever the configured event, location, path, fileType and limit and
\* whatever the persisted checkpoint; no filter stage is applied.
C30_ManualDependsOnResponseOnly ==
    ManualDone =>
        LET out == ManualOutcome(fetch, ~HelperThrew)
        IN  /\ result.kind = out.kind
            /\ result.kind = "error" =>
                    /\ result.error = "NodeApiError"
                    /\ result.message = out.message
            /\ result.kind = "batch" => result.batches = out.batches

\* a manual invocation with a checkpoint persisted has returned both items of
\* the answer although the configured stages would have dropped them all
C30_Witness ==
    /\ ManualDone
    /\ lastTimeChecked # <<>>
    /\ Len(responseItems(fetch)) = 2
    /\ filterPipeline(responseItems(fetch), cfg, startDate, endDate) = <<>>
    /\ filterByEventType(responseItems(fetch), cfg.event) = <<>>
    /\ result.kind = "batch"
    /\ Emitted = responseItems(fetch)

----------------------------------------------------------------------------
(* waitForOperation, the asynchronous operations and execute *)

\* C26: when every status request is answered, waitForOperation ends; it
\* returns only after an answer with status 'success', throws on an answer
\* with status 'failed', throws the timeout error when the timeout has
\* elapsed at the head of its loop without either, and does not return while
\* the last answer says the operation is in progress.
C26_WaitTerminates ==
    /\ <>WaitDone(wait)
    /\ [](wait.pc = "returned" => wait.last = "success")
    /\ [](wait.last = "failed" => wait.pc = "thrown" /\ wait.error = "failed")
    /\ [](wait.last = "in-progress" => wait.pc # "returned")
    /\ [](wait.error = "timeout" =>
            /\ wait.pc = "thrown"
            /\ wait.elapsed >= wait.timeout
            /\ wait.last \notin {"success", "failed"})
    /\ [][(wait.pc \in {"called", "sleep"} /\ wait'.elapsed >= wait.timeout) =>
            (wait'.pc = "thrown" /\ wait'.error = "timeout")]_vars

\* waitForOperation has asked, was told the operation is in progress, and has
\* thrown the timeout error
C26_Witness ==
    /\ exec.pc = "none"
    /\ wait.pc = "thrown"
    /\ wait.error = "timeout"
    /\ wait.asked
    /\ wait.last = "in-progress"
    /\ wait.timeout > 0

\* the entries of returnData paired to input item i
EntriesOf(i) == SelectSeq(exec.returnData, LAMBDA entry : entry.pairedItem = i)

\* C27: when the remote answered delete, copy or move of an item with an
\* operation link: without waitForCompletion the result of the item has
\* status 'pending' and the operation id and no status request was sent; with
\* waitForCompletion the item has a 'completed' result only when
\* waitForOperation saw success, and when the operation failed or timed out
\* the item produced an error and no 'completed' result.
C27_AsyncOperations ==
    /\ \A k \in 1..Len(exec.log) :
        exec.log[k].link =>
            /\ ~exec.waitForCompletion[k] =>
                    /\ EntriesOf(k - 1) = <<Entry(TRUE, "pending", <<"op1">>, "", k - 1)>>
                    /\ ~exec.log[k].asked
            /\ exec.waitForCompletion[k] =>
                    /\ exec.log[k].asked
                    /\ (\E n \in 1..Len(EntriesOf(k - 1)) :
                            EntriesOf(k - 1)[n].json.status = "completed") =>
                                exec.log[k].outcome = "success"
                    /\ exec.log[k].outcome \in {"failed", "timeout"} =>
                            IF exec.continueOnFail
                            THEN /\ Len(EntriesOf(k - 1)) = 1
                                 /\ ~EntriesOf(k - 1)[1].json.success
                                 /\ EntriesOf(k - 1)[1].json.error # ""
                            ELSE /\ EntriesOf(k - 1) = <<>>
                                 /\ exec.pc = "thrown"
                                 /\ exec.error = "NodeApiError"
                                 /\ exec.output = <<>>
    /\ exec.pc = "awaitStatus" => EntriesOf(exec.i) = <<>>

\* the first item was answered with an operation link and not waited for,
\* the second was waited for until the timeout
C27_Witness ==
    /\ exec.pc = "returned"
    /\ Len(exec.log) = 2
    /\ exec.log[1].link /\ ~exec.waitForCompletion[1]
    /\ EntriesOf(0) # <<>> /\ EntriesOf(0)[1].json.status = "pending"
    /\ exec.log[2].link /\ exec.waitForCompletion[2]
    /\ exec.log[2].outcome = "timeout"
    /\ EntriesOf(1) # <<>> /\ ~EntriesOf(1)[1].json.success

\* C28: with continueOnFail, an input item whose operation fails gives
\* exactly one entry {error, success: false} paired to its index, the entries
\* of returnData follow the order of the input items and execute goes through
\* all of them; without continueOnFail the first failing item is the last one
\* processed, execute throws and returns no output.
C28_ContinueOnFail ==
    /\ \A a, b \in 1..Len(exec.returnData) :
            a < b => exec.returnData[a].pairedItem <= exec.returnData[b].pairedItem
    /\ exec.continueOnFail =>
        /\ \A k \in 1..Len(exec.log) :
            exec.log[k].failed =>
                /\ Len(EntriesOf(k - 1)) = 1
                /\ ~EntriesOf(k - 1)[1].json.success
                /\ EntriesOf(k - 1)[1].json.error # ""
        /\ exec.pc = "returned" =>
                /\ Len(exec.log) = exec.length
                /\ exec.output = <<exec.returnData>>
        /\ exec.pc = "thrown" => exec.log = <<>>
    /\ ~exec.continueOnFail =>
        \A k \in 1..Len(exec.log) :
            exec.log[k].failed =>
                /\ k = Len(exec.log)
                /\ exec.pc = "thrown"
                /\ exec.error \in {"NodeApiError", "NodeOperationError"}
                /\ exec.output = <<>>

\* with continueOnFail the first of two items failed and the second was
\* completed after it
C28_Witness ==
    /\ exec.continueOnFail
    /\ exec.pc = "returned"
    /\ exec.length = 2
    /\ exec.log[1].failed
    /\ ~exec.log[2].failed
    /\ Len(exec.returnData) = 2
    /\ ~exec.returnData[1].json.success
    /\ exec.returnData[2].json.success

====
